---- MODULE Spec2Model ----
(***************************************************************************)
(* Model of Auto-update.py: the directory scanner, the library patcher,    *)
(* the repository synchronizer and main.                                   *)
(*                                                                         *)
(* Text is a sequence of characters.  A few fixed runs of characters are   *)
(* written as one symbol:                                                  *)
(*   "D"   const animationFiles =      (the text before the bracket)       *)
(*   "A"   the letter A,  "n"  nim     (so that ANIM_FOLDER is "A","n")    *)
(*   "L"   nimation Library            (LIBRARY_FILE is "A","L","H")       *)
(*   "H"   .html                                                           *)
(*   "T"   .txt                                                            *)
(*   "W12" newline and 12 blanks,  "W8" newline and 8 blanks               *)
(*   "NL"  newline                                                         *)
(*   "x"   any other text of the page                                      *)
(* Every other symbol is the character itself.                             *)
(***************************************************************************)
EXTENDS Integers, Sequences, FiniteSets, TLC

VARIABLES
    content,        \* text of LIBRARY_FILE in the working tree, or NoFile
    disk_files,     \* the list the scanner returned (as a set of paths)
    runs,           \* number of update_library_file calls made so far
    before,         \* content when the last update_library_file call began
    afterFirst,     \* content when the first update_library_file call ended
    branches,       \* the return point each call took, in order
    ret,            \* the value the last call returned
    writes,         \* number of times the last call opened the file for writing
    parsed,         \* html_files_set of the last call (None without a match)
    made,           \* a record of how the initial document was built
    pc,             \* position of main
    dirEntries,     \* os.listdir(ANIM_FOLDER), or NoDir
    libReads,       \* number of times LIBRARY_FILE was opened for reading
    head,           \* text of LIBRARY_FILE in the last commit
    stash,          \* text of LIBRARY_FILE in the stash entry, or None
    gitlog,         \* the git commands run so far, each with its outcome
    has_local_changes,
    status_lines,   \* the listing the second git status reported
    commit_message,
    patched         \* the text the patcher wrote in this run, or None

vars == <<content, disk_files, runs, before, afterFirst, branches, ret, writes,
          parsed, made, pc, dirEntries, libReads, head, stash, gitlog,
          has_local_changes, status_lines, commit_message, patched>>

patchVars == <<content, runs, before, afterFirst, branches, ret, writes, parsed>>
gitVars == <<head, stash, gitlog, has_local_changes, status_lines, commit_message>>

\* Values of the same kind as the ones they stand in for, so that they can
\* be compared with them.
None == <<"None">>
NoFile == <<"NoFile">>
NoDir == {<<"NoDir">>}
NoSet == {<<"None">>}
NoMatch == [found |-> FALSE]

\* --- Configuration ---
ANIM_FOLDER == <<"A", "n">>
LIBRARY_FILE == <<"A", "L", "H">>

\* ---------------------------------------------------------------- bounds
MaxFiles == 2       \* files in the Anim folder
MaxEntries == 2     \* entries of the array in the initial document
MaxRuns == 2        \* successive calls of update_library_file
MaxStatusLines == 2 \* lines of a git status listing

\* ------------------------------------------------------------ characters
Min(S) == CHOOSE x \in S : \A y \in S : x <= y
Max(S) == CHOOSE x \in S : \A y \in S : x >= y

\* Code point of the (first) character of a symbol: the order of str.
Code(c) ==
    CASE c = " " -> 32
      [] c = "\"" -> 34
      [] c = "'" -> 39
      [] c = "," -> 44
      [] c = "H" -> 46
      [] c = "T" -> 46
      [] c = "/" -> 47
      [] c = ";" -> 59
      [] c = "?" -> 63
      [] c = "A" -> 65
      [] c = "M" -> 77
      [] c = "\\" -> 92
      [] c = "[" -> 91
      [] c = "]" -> 93
      [] c = "a" -> 97
      [] c = "b" -> 98
      [] c = "D" -> 99
      [] c = "L" -> 110
      [] c = "n" -> 110
      [] c = "x" -> 120
      [] OTHER -> 10

\* str.__lt__
RECURSIVE StrLess(_, _)
StrLess(s, t) ==
    IF t = <<>> THEN FALSE
    ELSE IF s = <<>> THEN TRUE
    ELSE IF Code(Head(s)) # Code(Head(t)) THEN Code(Head(s)) < Code(Head(t))
    ELSE StrLess(Tail(s), Tail(t))

\* sorted(list(S)) for a set of strings
RECURSIVE sorted(_)
sorted(S) ==
    IF S = {} THEN <<>>
    ELSE LET m == CHOOSE s \in S : \A t \in S \ {s} : StrLess(s, t)
         IN <<m>> \o sorted(S \ {m})

Whitespace == {" ", "W12", "W8", "NL"}
Quotes == {"\"", "'"}

\* str.strip(chars): drop the leading and trailing characters in cs
strip(s, cs) ==
    LET keep == {i \in 1..Len(s) : s[i] \notin cs}
    IN IF keep = {} THEN <<>> ELSE SubSeq(s, Min(keep), Max(keep))

\* str.split(sep) for a one-character separator
RECURSIVE split(_, _)
split(s, sep) ==
    LET at == {i \in 1..Len(s) : s[i] = sep}
    IN IF at = {} THEN <<s>>
       ELSE <<SubSeq(s, 1, Min(at) - 1)>> \o split(SubSeq(s, Min(at) + 1, Len(s)), sep)

\* sep.join(parts)
RECURSIVE join(_, _)
join(sep, parts) ==
    IF parts = <<>> THEN <<>>
    ELSE IF Len(parts) = 1 THEN parts[1]
    ELSE parts[1] \o sep \o join(sep, Tail(parts))

StartsWith(s, p) == Len(s) >= Len(p) /\ SubSeq(s, 1, Len(p)) = p

\* str.replace(old, new) with no count: every non-overlapping occurrence,
\* left to right
RECURSIVE replace(_, _, _)
replace(s, old, new) ==
    IF Len(s) < Len(old) THEN s
    ELSE IF StartsWith(s, old)
         THEN new \o replace(SubSeq(s, Len(old) + 1, Len(s)), old, new)
         ELSE <<Head(s)>> \o replace(Tail(s), old, new)

\* ------------------------------------------------------------ the patcher
\* Whether r"const animationFiles = \[\s*([^\]]*)\s*\];" matches at i.
\* [^\]]* cannot pass a closing bracket, so the bracket the pattern ends on
\* is the first one after the opening bracket.
RegexMatchesAt(text, i) ==
    /\ i + 1 <= Len(text)
    /\ text[i] = "D"
    /\ text[i + 1] = "["
    /\ LET close == {j \in (i + 2)..Len(text) : text[j] = "]"}
       IN /\ close # {}
          /\ Min(close) + 1 <= Len(text)
          /\ text[Min(close) + 1] = ";"

\* re.search(regex, content): the leftmost match, group(0) and group(1).
\* The first \s* is greedy and takes all leading whitespace; [^\]]* is greedy
\* and takes the rest up to the bracket; the second \s* is left empty.
re_search(text) ==
    LET starts == {i \in 1..Len(text) : RegexMatchesAt(text, i)}
    IN IF starts = {} THEN NoMatch
       ELSE LET i == Min(starts)
                j == Min({k \in (i + 2)..Len(text) : text[k] = "]"})
                body == {k \in (i + 2)..(j - 1) : text[k] \notin Whitespace}
            IN [found |-> TRUE,
                start |-> i,
                group0 |-> SubSeq(text, i, j + 1),
                group1 |-> IF body = {} THEN <<>>
                           ELSE SubSeq(text, Min(body), j - 1)]

\* [f.strip().strip('"\'') for f in html_files_str.split(',') if f.strip()]
html_files(html_files_str) ==
    LET pieces == split(html_files_str, ",")
        kept == SelectSeq(pieces, LAMBDA f : strip(f, Whitespace) # <<>>)
    IN [k \in 1..Len(kept) |-> strip(strip(kept[k], Whitespace), Quotes)]

Range(s) == {s[k] : k \in 1..Len(s)}
Last(s) == s[Len(s)]

\* formatted_files without the sort: the names in some other order
formatted_files_unsorted(disk_files_set) ==
    LET names == sorted(disk_files_set)
        n == Len(names)
    IN join(<<",", "W12">>,
            [k \in 1..n |-> <<"\"">> \o names[n + 1 - k] \o <<"\"">>])

\* ',\n            '.join([f'"{f}"' for f in sorted(list(disk_files_set))])
formatted_files(disk_files_set) ==
    LET names == sorted(disk_files_set)
    IN join(<<",", "W12">>,
            [k \in 1..Len(names) |-> <<"\"">> \o names[k] \o <<"\"">>])

\* f"const animationFiles = [\n            {formatted_files}\n        ];"
new_array_str(disk_files_set) ==
    <<"D", "[", "W12">> \o formatted_files(disk_files_set) \o <<"W8", "]", ";">>

\* content.replace(match.group(0), new_array_str)
updated_content(text, match, disk_files_set) ==
    replace(text, match.group0, new_array_str(disk_files_set))

\* disk_files_set == html_files_set
UpToDate(disk_files_set, html_files_set) == disk_files_set = html_files_set

\* update_library_file(disk_files): the outcome of one call on the file
\* `text`.  wok says whether the file could be written; trunc whether a
\* failed write left the file empty.
update_library_file(text, files, wok, trunc) ==
    IF text = NoFile
    THEN [content |-> text, ret |-> FALSE, branch |-> "missing", writes |-> 0,
          parsed |-> NoSet]
    ELSE LET match == re_search(text)
         IN IF ~match.found
            THEN [content |-> text, ret |-> FALSE, branch |-> "nomatch",
                  writes |-> 0, parsed |-> NoSet]
            ELSE LET html_files_set == Range(html_files(match.group1))
                 IN IF UpToDate(files, html_files_set)
                    THEN [content |-> text, ret |-> FALSE, branch |-> "uptodate",
                          writes |-> 0, parsed |-> html_files_set]
                    ELSE IF wok
                    THEN [content |-> updated_content(text, match, files),
                          ret |-> TRUE, branch |-> "written", writes |-> 1,
                          parsed |-> html_files_set]
                    ELSE [content |-> IF trunc THEN <<>> ELSE text,
                          ret |-> FALSE, branch |-> "ioerror", writes |-> 1,
                          parsed |-> html_files_set]

\* ------------------------------------------------------------ the scanner
EndsWith(s, c) == Len(s) >= 1 /\ s[Len(s)] = c

\* os.path.join(ANIM_FOLDER, f).replace("\\", "/")
AnimPath(f) ==
    LET joined == ANIM_FOLDER \o <<"/">> \o f
    IN [k \in 1..Len(joined) |-> IF joined[k] = "\\" THEN "/" ELSE joined[k]]

\* get_animation_files_from_disk(): [] without the folder, else the .html
\* entries of the folder, each under the folder's name
get_animation_files_from_disk(entries) ==
    IF entries = NoDir THEN {}
    ELSE {AnimPath(f) : f \in {g \in entries : EndsWith(g, "H")}}

\* ---------------------------------------------------- the states to start in
\* File names an Anim folder may hold: ordinary ones and ones with a comma,
\* a quote or a closing bracket in them.
Stems == {<<"a">>, <<"b">>, <<",">>, <<"]">>, <<"\"">>}
HtmlNames == {st \o <<"H">> : st \in Stems}

SubsetsUpTo(S, n) == {T \in SUBSET S : Cardinality(T) <= n}
SeqsUpTo(S, n) == UNION {[1..k -> S] : k \in 0..n}

\* An animationFiles array as a page may hold it: the entries in the order
\* and number given, each in the quotes q, laid out as the patcher lays it
\* out or on one line.
Literal(entries, q, layout) ==
    LET quoted == [k \in 1..Len(entries) |-> <<q>> \o entries[k] \o <<q>>]
    IN IF layout = "patcher"
       THEN <<"D", "[", "W12">> \o join(<<",", "W12">>, quoted) \o <<"W8", "]", ";">>
       ELSE <<"D", "[">> \o join(<<",", " ">>, quoted) \o <<"]", ";">>

OtherLiteral == Literal(<<AnimPath(<<"x", "H">>)>>, "\"", "line")

\* A page: without the array, with one, with the same one twice, or with two
\* different ones.
Page(shape, entries, q, layout) ==
    LET lit == Literal(entries, q, layout)
    IN CASE shape = "none" -> <<"x", "D", "x">>
         [] shape = "one" -> <<"x">> \o lit \o <<"x">>
         [] shape = "twin" -> <<"x">> \o lit \o <<"x">> \o lit \o <<"x">>
         [] shape = "two" -> <<"x">> \o lit \o <<"x">> \o OtherLiteral

Shapes == {"none", "one", "twin", "two"}
Styles == {<<"\"", "patcher">>, <<"'", "line">>}
EntryStems == {<<"a">>, <<",">>, <<"]">>}
EntryLists == SeqsUpTo({AnimPath(st \o <<"H">>) : st \in EntryStems}, MaxEntries)

Unset == [shape |-> "unset", entries |-> <<>>, q |-> "\"", layout |-> "line"]

\* ------------------------------------------- update_library_file, repeated
InitPatch ==
    /\ \E d \in SubsetsUpTo(HtmlNames, MaxFiles) :
          /\ dirEntries = d
          /\ disk_files = get_animation_files_from_disk(d)
          /\ disk_files # {}
    /\ \E shape \in Shapes, entries \in EntryLists, st \in Styles :
          /\ shape = "none" => entries = <<>>
          /\ shape # "one" => st = <<"'", "line">>
          /\ made = [shape |-> shape, entries |-> entries, q |-> st[1],
                     layout |-> st[2]]
          /\ content = Page(shape, entries, st[1], st[2])
    /\ runs = 0
    /\ before = content
    /\ afterFirst = content
    /\ branches = <<>>
    /\ ret = FALSE
    /\ writes = 0
    /\ parsed = NoSet
    /\ pc = "patch"
    /\ libReads = 0
    /\ head = content
    /\ stash = None
    /\ gitlog = <<>>
    /\ has_local_changes = FALSE
    /\ status_lines = <<>>
    /\ commit_message = None
    /\ patched = None

\* One call of update_library_file(disk_files) on the file as it is, and
\* what is kept of it for the claims.
UpdateStep(wok, trunc) ==
    /\ LET r == update_library_file(content, disk_files, wok, trunc)
       IN /\ content' = r.content
          /\ branches' = Append(branches, r.branch)
          /\ ret' = r.ret
          /\ writes' = r.writes
          /\ parsed' = r.parsed
          /\ afterFirst' = IF runs = 0 THEN r.content ELSE afterFirst
    /\ before' = content
    /\ runs' = runs + 1
    /\ libReads' = libReads + 1

CallUpdate(wok, trunc) ==
    /\ runs < MaxRuns
    /\ UpdateStep(wok, trunc)
    /\ UNCHANGED <<disk_files, made, pc, dirEntries, head, stash, gitlog,
                   has_local_changes, status_lines, commit_message, patched>>

NextPatch == \E wok \in BOOLEAN, trunc \in BOOLEAN : CallUpdate(wok, trunc)

SpecPatch == InitPatch /\ [][NextPatch]_vars

\* ---------------------------------------------------------------- git
\* A line of `git status --porcelain`: the two status letters, a blank, the
\* path.  The listing is the lines, each ended by a newline.
Untracked == <<"?", "?">>
Unstaged == <<" ", "M">>
Staged == <<"M", " ">>
Added == <<"A", " ">>
StatusLine(l) == l.xy \o <<" ">> \o l.path \o <<"NL">>

RECURSIVE concat(_)
concat(parts) == IF parts = <<>> THEN <<>> ELSE Head(parts) \o concat(Tail(parts))

stdout(lines) == concat([k \in 1..Len(lines) |-> StatusLine(lines[k])])

\* status_result.stdout.strip()
status_output(lines) == strip(stdout(lines), Whitespace)

\* os.path.basename(p): what follows the last separator
basename(path) ==
    LET at == {i \in 1..Len(path) : path[i] = "/"}
    IN IF at = {} THEN path ELSE SubSeq(path, Max(at) + 1, Len(path))

\* line[3:]
From3(line) == SubSeq(line, 4, Len(line))

\* The commit message derived from final_status_output.
DefaultMessage == <<"Update animation library">>
derive_commit_message(final_status_output) ==
    LET changed_files == split(final_status_output, "NL")
        added == SelectSeq(changed_files, LAMBDA line : StartsWith(line, Untracked))
        modified == SelectSeq(changed_files,
                        LAMBDA line : StartsWith(strip(line, Whitespace), <<"M">>))
    IN IF added # <<>> THEN <<"Add", " ">> \o basename(From3(added[1]))
       ELSE IF modified # <<>> THEN <<"Update", " ">> \o basename(From3(modified[1]))
       ELSE DefaultMessage

\* The listings git may report: each path on one line at most.
StatusLines ==
    {[xy |-> Unstaged, path |-> LIBRARY_FILE],
     [xy |-> Staged, path |-> LIBRARY_FILE],
     [xy |-> Untracked, path |-> AnimPath(<<"a", "H">>)],
     [xy |-> Unstaged, path |-> AnimPath(<<"a", "H">>)],
     [xy |-> Added, path |-> AnimPath(<<"a", "H">>)],
     [xy |-> Untracked, path |-> AnimPath(<<"b", "H">>)],
     [xy |-> Added, path |-> AnimPath(<<"b", "H">>)]}
Listings ==
    {ls \in SeqsUpTo(StatusLines, MaxStatusLines) :
        \A j, k \in 1..Len(ls) : ls[j].path = ls[k].path => j = k}

\* The listing has a line for the library file exactly when the file in the
\* working tree differs from the one of the last commit.
ListsLibrary(lines) == \E k \in 1..Len(lines) : lines[k].path = LIBRARY_FILE

\* subprocess.run without check=True: the next command runs whatever the
\* outcome
AfterRun_unchecked(rc, next) == next

\* subprocess.run(..., check=True) inside the try block: a command that
\* fails, or git missing, raises, and the handlers end the function.
AfterRun(rc, next) == IF rc = "ok" THEN next ELSE "done"

\* the final status check without its return
AfterFinalStatus_noreturn(final_status_output) == "add"

\* if not final_status_output: return
AfterFinalStatus(final_status_output) ==
    IF final_status_output = <<>> THEN "done" ELSE "add"

\* main without the return on an empty list
AfterScan_noreturn(files) == "patch"

\* if not disk_files: return
AfterScan(files) == IF files = {} THEN "done" ELSE "patch"

Log(cmd, rc) == gitlog' = Append(gitlog, [cmd |-> cmd, rc |-> rc])

\* ---------------------------------------------------------------- main
MainNames == {<<"a", "H">>, <<"b", "H">>, <<"a", "T">>}
MainPages ==
    {[shape |-> "none", entries |-> <<>>, q |-> "'", layout |-> "line"],
     [shape |-> "one", entries |-> <<>>, q |-> "'", layout |-> "line"],
     [shape |-> "one", entries |-> <<AnimPath(<<"a", "H">>)>>, q |-> "\"",
      layout |-> "patcher"]}
Upstream == Page("one", <<AnimPath(<<"b", "H">>)>>, "\"", "patcher")

Init ==
    /\ dirEntries \in {NoDir} \cup SubsetsUpTo(MainNames, MaxFiles)
    /\ disk_files = {}
    /\ \/ /\ made \in MainPages
          /\ content = Page(made.shape, made.entries, made.q, made.layout)
       \/ /\ made = Unset
          /\ content = NoFile
    /\ head \in {content, Upstream}
    /\ runs = 0
    /\ before = content
    /\ afterFirst = content
    /\ branches = <<>>
    /\ ret = FALSE
    /\ writes = 0
    /\ parsed = NoSet
    /\ pc = "start"
    /\ libReads = 0
    /\ stash = None
    /\ gitlog = <<>>
    /\ has_local_changes = FALSE
    /\ status_lines = <<>>
    /\ commit_message = None
    /\ patched = None

\* main, step 1: disk_files = get_animation_files_from_disk()
Scan ==
    /\ pc = "start"
    /\ disk_files' = get_animation_files_from_disk(dirEntries)
    /\ pc' = AfterScan(disk_files')
    /\ UNCHANGED <<patchVars, gitVars, made, dirEntries, libReads, patched>>

\* main, step 2: update_library_file(disk_files); the result is not used
Patch(wok, trunc) ==
    /\ pc = "patch"
    /\ UpdateStep(wok, trunc)
    /\ patched' = IF Last(branches') = "written" THEN content' ELSE None
    /\ pc' = "status"
    /\ UNCHANGED <<gitVars, disk_files, made, dirEntries>>

\* git status --porcelain; a working tree that differs from the last commit
\* is reported dirty
GitStatus(rc, dirty) ==
    /\ pc = "status"
    /\ content # head => dirty
    /\ Log("status", rc)
    /\ has_local_changes' = IF rc = "ok" THEN dirty ELSE has_local_changes
    /\ pc' = AfterRun(rc, IF dirty THEN "stash" ELSE "pull")
    /\ UNCHANGED <<patchVars, disk_files, made, dirEntries, libReads, patched,
                   head, stash, status_lines, commit_message>>

\* git stash: the changes go to the stash and the working tree is that of
\* the last commit
GitStash(rc) ==
    /\ pc = "stash"
    /\ Log("stash", rc)
    /\ stash' = IF rc = "ok" THEN content ELSE stash
    /\ content' = IF rc = "ok" THEN head ELSE content
    /\ pc' = AfterRun(rc, "pull")
    /\ UNCHANGED <<runs, before, afterFirst, branches, ret, writes, parsed,
                   disk_files, made, dirEntries, libReads, patched, head,
                   has_local_changes, status_lines, commit_message>>

\* git pull --rebase: the last commit becomes the remote's, and so does the
\* (clean) working tree
GitPull(rc, remote) ==
    /\ pc = "pull"
    /\ Log("pull", rc)
    /\ head' = IF rc = "ok" THEN remote ELSE head
    /\ content' = IF rc = "ok" THEN remote ELSE content
    /\ pc' = AfterRun(rc, IF has_local_changes THEN "pop" ELSE "final_status")
    /\ UNCHANGED <<runs, before, afterFirst, branches, ret, writes, parsed,
                   disk_files, made, dirEntries, libReads, patched, stash,
                   has_local_changes, status_lines, commit_message>>

\* git stash pop: the stashed changes are back in the working tree; a pop
\* that fails leaves the stash in place
GitStashPop(rc) ==
    /\ pc = "pop"
    /\ Log("stash pop", rc)
    /\ content' = IF rc = "ok" THEN stash ELSE content
    /\ stash' = IF rc = "ok" THEN None ELSE stash
    /\ pc' = AfterRun(rc, "final_status")
    /\ UNCHANGED <<runs, before, afterFirst, branches, ret, writes, parsed,
                   disk_files, made, dirEntries, libReads, patched, head,
                   has_local_changes, status_lines, commit_message>>

\* the second git status --porcelain, and the commit message
GitFinalStatus(rc, lines) ==
    /\ pc = "final_status"
    /\ content # head <=> ListsLibrary(lines)
    /\ Log("status", rc)
    /\ IF rc = "ok"
       THEN /\ status_lines' = lines
            /\ pc' = AfterFinalStatus(status_output(lines))
            /\ commit_message' =
                  IF pc' = "add" THEN derive_commit_message(status_output(lines))
                  ELSE commit_message
       ELSE /\ pc' = "done"
            /\ UNCHANGED <<status_lines, commit_message>>
    /\ UNCHANGED <<patchVars, disk_files, made, dirEntries, libReads, patched,
                   head, stash, has_local_changes>>

\* git add .
GitAdd(rc) ==
    /\ pc = "add"
    /\ Log("add", rc)
    /\ pc' = AfterRun(rc, "commit")
    /\ UNCHANGED <<patchVars, disk_files, made, dirEntries, libReads, patched,
                   head, stash, has_local_changes, status_lines, commit_message>>

\* git commit -m commit_message: the working tree is the last commit
GitCommit(rc) ==
    /\ pc = "commit"
    /\ Log("commit", rc)
    /\ head' = IF rc = "ok" THEN content ELSE head
    /\ pc' = AfterRun(rc, "push")
    /\ UNCHANGED <<patchVars, disk_files, made, dirEntries, libReads, patched,
                   stash, has_local_changes, status_lines, commit_message>>

\* git push
GitPush(rc) ==
    /\ pc = "push"
    /\ Log("push", rc)
    /\ pc' = "done"
    /\ UNCHANGED <<patchVars, disk_files, made, dirEntries, libReads, patched,
                   head, stash, has_local_changes, status_lines, commit_message>>

Outcomes == {"ok", "fail"}

Next ==
    \/ Scan
    \/ \E wok \in BOOLEAN, trunc \in BOOLEAN : Patch(wok, trunc)
    \/ \E rc \in Outcomes \cup {"nogit"}, dirty \in BOOLEAN : GitStatus(rc, dirty)
    \/ \E rc \in Outcomes : GitStash(rc)
    \/ \E rc \in Outcomes, remote \in {head, Upstream} : GitPull(rc, remote)
    \/ \E rc \in Outcomes : GitStashPop(rc)
    \/ \E rc \in Outcomes, lines \in Listings : GitFinalStatus(rc, lines)
    \/ \E rc \in Outcomes : GitAdd(rc)
    \/ \E rc \in Outcomes : GitCommit(rc)
    \/ \E rc \in Outcomes : GitPush(rc)

Spec == Init /\ [][Next]_vars

\* ------------------------------------------------- claims on the patcher
Called == runs >= 1
Rewrote == Called /\ Last(branches) = "written"
HasArray == made.shape \in {"one", "twin", "two"}
Orderings(S) == {E \in [1..Cardinality(S) -> S] : Range(E) = S}
Ascending(E) == \A k \in 1..(Len(E) - 1) : StrLess(E[k], E[k + 1])

\* C1: on a page that holds the array, with a non-empty target set and no
\* write error, the second of two successive calls leaves the file as the
\* first left it, takes the up-to-date return and opens nothing for writing.
C1_Idempotent ==
    (runs = 2 /\ HasArray /\ disk_files # {} /\ "ioerror" \notin Range(branches))
        => /\ content = afterFirst
           /\ branches[2] = "uptodate"
           /\ writes = 0

\* C2: when the set parsed from the page differs from the target set, the
\* call rewrites the array (unless the write fails), and the rewritten array
\* holds the members of the target set, each once, ascending, each in double
\* quotes, and none of the parsed members that are not in the target set.
C2_Rewritten ==
    /\ (Called /\ parsed # NoSet /\ parsed # disk_files)
          => Last(branches) \in {"written", "ioerror"}
    /\ Rewrote =>
          LET m == re_search(before)
              rest == SubSeq(content, m.start, Len(content))
          IN /\ SubSeq(content, 1, m.start - 1) = SubSeq(before, 1, m.start - 1)
             /\ \E E \in Orderings(disk_files) :
                   /\ Ascending(E)
                   /\ StartsWith(rest, Literal(E, "\"", "patcher"))
                   /\ \A f \in parsed \ disk_files : f \notin Range(E)

C2_Witness ==
    /\ Rewrote
    /\ Cardinality(disk_files) = 2
    /\ parsed \ disk_files # {}
    /\ disk_files \ parsed # {}

\* C3: the patcher's parse of the array it wrote for the target set gives
\* back the target set.
C3_RoundTrip ==
    Rewrote =>
        LET m == re_search(new_array_str(disk_files))
        IN m.found /\ Range(html_files(m.group1)) = disk_files

\* C4: a rewrite changes the first match of the array and nothing else of
\* the page.
C4_OnlyFirstMatch ==
    Rewrote =>
        LET m == re_search(before)
            stop == m.start + Len(m.group0)
        IN content = SubSeq(before, 1, m.start - 1)
                     \o new_array_str(disk_files)
                     \o SubSeq(before, stop, Len(before))

\* C9: a call on a page whose array lists exactly the target set, in any
\* order, quotes and number of repeats, writes nothing, leaves the file as
\* it was and returns False.
C9_NoOp ==
    (runs = 1 /\ HasArray /\ Range(made.entries) = disk_files)
        => writes = 0 /\ content = before /\ ret = FALSE

\* ---------------------------------------- claims on main and on git
Aborted == gitlog # <<>> /\ Last(gitlog).rc # "ok"
Ran(cmd) == \E k \in 1..Len(gitlog) : gitlog[k].cmd = cmd
StatusRuns(k) == Cardinality({j \in 1..k : gitlog[j].cmd = "status"})

\* The message the listing calls for: the first untracked path if there is
\* one, else the first modified path, staged or not, else the default.
ExpectedMessage(lines) ==
    LET untracked == SelectSeq(lines, LAMBDA l : l.xy = Untracked)
        modified == SelectSeq(lines, LAMBDA l : l.xy \in {Unstaged, Staged})
    IN IF untracked # <<>> THEN <<"Add", " ">> \o basename(untracked[1].path)
       ELSE IF modified # <<>> THEN <<"Update", " ">> \o basename(modified[1].path)
       ELSE DefaultMessage

\* C5: the commit message is 'Add ' and the base name of the first untracked
\* path of the second listing, else 'Update ' and the full base name of its
\* first modified path, else the default message.
C5_CommitMessage ==
    commit_message # None => commit_message = ExpectedMessage(status_lines)

\* C6: when the patcher rewrote the library file and a git command then
\* failed, the file in the working tree holds the patched text at the end of
\* the run.
C6_PatchKept ==
    (pc = "done" /\ patched # None /\ Aborted) => content = patched

\* C7: a git command that fails, or git missing, is the last git command of
\* the run.
C7_NothingAfterFailure ==
    /\ \A k \in 1..(Len(gitlog) - 1) : gitlog[k].rc = "ok"
    /\ Aborted => pc = "done"

C7_Witness ==
    /\ pc = "done"
    /\ Len(gitlog) = 4
    /\ Last(gitlog) = [cmd |-> "stash pop", rc |-> "fail"]

\* C8: when the scanner returns nothing, main ends there: the library file
\* is neither read nor written and no git command is run.
C8_EmptyScanStops ==
    (pc # "start" /\ disk_files = {})
        => /\ pc = "done"
           /\ libReads = 0
           /\ writes = 0
           /\ content = before
           /\ gitlog = <<>>

C8_Witness ==
    /\ pc = "done"
    /\ disk_files = {}
    /\ dirEntries = {<<"a", "T">>}

\* C10: add, commit and push are run only after the second status check
\* reported changes, in that order, each after the one before it succeeded;
\* after a second status check that reported none, none of them is run.
C10_CommitOnlyWhenDirty ==
    /\ \A k \in 1..Len(gitlog) :
          /\ gitlog[k].cmd = "add" =>
                /\ k >= 3
                /\ gitlog[k - 1] = [cmd |-> "status", rc |-> "ok"]
                /\ StatusRuns(k) = 2
                /\ status_output(status_lines) # <<>>
          /\ gitlog[k].cmd = "commit" =>
                k >= 2 /\ gitlog[k - 1] = [cmd |-> "add", rc |-> "ok"]
          /\ gitlog[k].cmd = "push" =>
                k >= 2 /\ gitlog[k - 1] = [cmd |-> "commit", rc |-> "ok"]
    /\ (gitlog # <<>> /\ StatusRuns(Len(gitlog)) = 2 /\ status_lines = <<>>)
          => /\ pc = "done"
             /\ ~Ran("add") /\ ~Ran("commit") /\ ~Ran("push")

C10_Witness ==
    /\ pc = "done"
    /\ has_local_changes
    /\ Len(gitlog) = 8
    /\ Last(gitlog) = [cmd |-> "push", rc |-> "ok"]

====
